---- MODULE Spec2Model ----
(***************************************************************************)
(* Batched linear-chain CRF of baseline/pytorch/crf.py: the transition     *)
(* model (parameter + validity mask), the forward (log-partition)          *)
(* recursion, the gold-path scorer and the Viterbi decoder with its        *)
(* backward reconstruction.                                                *)
(*                                                                         *)
(* Tensors are functions over 0-based index ranges: unary[t][b][k],        *)
(* trans[to][from], alphas[b][k].  Scores of the max-recursion are         *)
(* integers.  Scores of the log-sum-exp recursion are held in the exponent *)
(* domain (base 2): the record [s |-> c, w |-> m] stands for the score     *)
(* c * Sentinel + log2(m).                                                 *)
(***************************************************************************)
EXTENDS Integers, Sequences, FiniteSets, TLC

VARIABLES built, n_tags, start_idx, end_idx, batch_first, mask, transitions_p,
          last_transitions,
          pc, seq_len, unary, tags, lengths, trans, i, alphas, alpha_hist,
          backpointers, best_tag_id, best_path, path_score, paths,
          fwd_score, gold_score, loss

crf_vars == <<built, n_tags, start_idx, end_idx, batch_first, mask, transitions_p>>
call_vars == <<pc, seq_len, unary, tags, lengths, trans, i, alphas, alpha_hist,
               backpointers, best_tag_id, best_path, path_score, paths,
               fwd_score, gold_score, loss>>
vars == <<crf_vars, last_transitions, call_vars>>

(***************************************************************************)
(* Bounds of the model.                                                    *)
(***************************************************************************)
NTags == 4          \* largest n_tags a CRF is built with
MaxT == 2           \* largest padded width T of a call
MaxVal == 1         \* ordinary scores are drawn from 0..MaxVal
EmBig == 20000      \* an emission larger than the sentinel's magnitude

Batch == {0, 1}     \* batch elements of a call (B = 2)

\* The large negative score of lines 55, 119 and 181 (-1e4).
Sentinel == -10000

\* An optional value is the empty set (Python's None) or a singleton.
None == {}
Some(x) == {x}
The(opt) == CHOOSE x \in opt : TRUE

NoValue == "NoValue"

(***************************************************************************)
(* Helpers of the tensor library.                                          *)
(***************************************************************************)
Tags(n) == 0 .. (n - 1)

Min(a, b) == IF a <= b THEN a ELSE b

SetMin(S) == CHOOSE x \in S : \A y \in S : x <= y

SetMax(S) == CHOOSE x \in S : \A y \in S : y <= x

\* torch.min(lengths)
MinLength(lens) == SetMin({lens[b] : b \in DOMAIN lens})

\* values of torch.max(v, dim): the largest entry of the vector v
MaxOf(v) == SetMax({v[k] : k \in DOMAIN v})

\* indices of torch.max(v, dim): the first index holding the largest entry
ArgMax(v) == SetMin({k \in DOMAIN v : v[k] = MaxOf(v)})

\* Tensor.masked_fill(m, value) on one entry
MaskedFill(x, m, value) == IF m THEN value ELSE x

\* Tensor.transpose(0, 1) of a tensor indexed [a][b]...
Transpose01(x, D0, D1) == [q \in D1 |-> [p \in D0 |-> x[p][q]]]

RECURSIVE Pow2(_)
Pow2(e) == IF e <= 0 THEN 1 ELSE 2 * Pow2(e - 1)

RECURSIVE SumOver(_, _)
\* sum of f over the finite set S of its domain
SumOver(f, S) ==
    IF S = {} THEN 0
    ELSE LET x == CHOOSE y \in S : TRUE IN f[x] + SumOver(f, S \ {x})

(***************************************************************************)
(* Transition model: CRF.__init__ and the transitions accessor.            *)
(***************************************************************************)
ZeroMatrix(n) == [to \in Tags(n) |-> [from \in Tags(n) |-> 0]]

TransitionsNoMask(p, m) == p

\* CRF.transitions: the parameter with the sentinel where the mask is set
Transitions(p, m) ==
    IF m # None
    THEN [to \in DOMAIN p |-> [from \in DOMAIN p[to] |->
              MaskedFill(p[to][from], The(m)[to][from], Sentinel)]]
    ELSE p

\* A mask that marks every off-diagonal transition invalid except the chain
\* start -> chain[1] -> ... -> chain[Len(chain)] -> end.
ChainMask(n, s, e, chain) ==
    LET full == <<s>> \o chain \o <<e>>
        hop(to, from) == \E q \in 1 .. (Len(full) - 1) :
                             full[q] = from /\ full[q + 1] = to
    IN  [to \in Tags(n) |-> [from \in Tags(n) |->
            (to # from) /\ ~hop(to, from)]]

\* sequences of distinct tags other than s and e, of length 1 .. n - 2
Chains(n, s, e) ==
    LET inner == Tags(n) \ {s, e}
    IN  UNION {{c \in [1 .. l -> inner] :
                  \A p, q \in 1 .. l : p # q => c[p] # c[q]} :
               l \in 1 .. Cardinality(inner)}

MaskChoices(n, s, e) ==
    {None} \cup
    (IF s \in Tags(n) /\ e \in Tags(n) /\ s # e
     THEN {Some(ChainMask(n, s, e, c)) : c \in Chains(n, s, e)}
     ELSE {})

\* parameter matrices an optimizer step may leave: at most one non-zero entry
ParamChoices(n) ==
    {ZeroMatrix(n)} \cup
    {[ZeroMatrix(n) EXCEPT ![to][from] = v] :
        to \in Tags(n), from \in Tags(n), v \in 1 .. MaxVal}

IdxChoices(n) == {0, n - 1, n}

IdleCall ==
    /\ pc = "idle" /\ seq_len = 0 /\ unary = NoValue /\ tags = NoValue
    /\ lengths = NoValue /\ trans = NoValue /\ i = 0 /\ alphas = NoValue /\ alpha_hist = <<>>
    /\ backpointers = <<>> /\ best_tag_id = NoValue /\ best_path = <<>>
    /\ path_score = NoValue /\ paths = NoValue /\ fwd_score = NoValue
    /\ gold_score = NoValue /\ loss = NoValue

\* CRF.__init__
Construct(n, s, e, bf, m) ==
    /\ ~built
    /\ built' = TRUE
    /\ start_idx' = s
    /\ end_idx' = e
    /\ n_tags' = n
    /\ mask' = m
    /\ transitions_p' = ZeroMatrix(n)
    /\ batch_first' = bf
    /\ UNCHANGED <<last_transitions, call_vars>>

ConstructCRF ==
    /\ ~built
    /\ \E n \in 1 .. NTags : \E s \in IdxChoices(n), e \in IdxChoices(n) :
       \E bf \in BOOLEAN : \E m \in MaskChoices(n, s, e) :
           Construct(n, s, e, bf, m)

\* a training step rewrites the parameter in place
OptimizerStep ==
    /\ built
    /\ pc = "idle"
    /\ \E p \in ParamChoices(n_tags) : p # transitions_p /\ transitions_p' = p
    /\ UNCHANGED <<built, n_tags, start_idx, end_idx, batch_first, mask,
                   last_transitions, call_vars>>

\* a read of the transitions property
AccessTransitions ==
    /\ built
    /\ pc = "idle"
    /\ last_transitions' = Some(Transitions(transitions_p, mask))
    /\ UNCHANGED <<crf_vars, call_vars>>

InitCRF ==
    /\ built = FALSE
    /\ n_tags = 0 /\ start_idx = 0 /\ end_idx = 0 /\ batch_first = TRUE
    /\ mask = None /\ transitions_p = ZeroMatrix(0)
    /\ last_transitions = None
    /\ IdleCall

NextCRF == ConstructCRF \/ OptimizerStep \/ AccessTransitions

SpecCRF == InitCRF /\ [][NextCRF]_vars

\* the effective matrix: the sentinel where the mask marks an entry invalid,
\* the raw parameter elsewhere and everywhere when no mask is configured
EffectiveMatrix ==
    [to \in Tags(n_tags) |-> [from \in Tags(n_tags) |->
        IF mask # None /\ The(mask)[to][from]
        THEN Sentinel
        ELSE transitions_p[to][from]]]

\* C6: every access of transitions returns the effective matrix of the
\* current parameter and mask and leaves both unchanged (so repeated accesses
\* agree and an updated parameter shows in the next access).
C6_TransitionsAccessor ==
    [][AccessTransitions =>
          /\ last_transitions' = Some(EffectiveMatrix)
          /\ transitions_p' = transitions_p
          /\ mask' = mask]_vars

\* an access under a mask after an update: the result carries both the
\* updated raw entry and a sentinel
C6_Witness ==
    /\ built /\ mask # None /\ last_transitions # None
    /\ \E to \in Tags(n_tags), from \in Tags(n_tags) :
          /\ transitions_p[to][from] > 0
          /\ The(last_transitions)[to][from] = transitions_p[to][from]
    /\ \E to \in Tags(n_tags), from \in Tags(n_tags) :
          The(last_transitions)[to][from] = Sentinel

\* C7: no CRF exists with n_tags < 2 or with a START or END index outside
\* [0, n_tags).
C7_ConfigRejected ==
    built => (n_tags >= 2 /\ start_idx \in Tags(n_tags) /\ end_idx \in Tags(n_tags))

(***************************************************************************)
(* Viterbi decoder: CRF.decode and viterbi.                                *)
(***************************************************************************)
Steps(T) == 0 .. (T - 1)

\* lines 181-182 (and 119-120): -1e4 everywhere, 0 at the start tag
InitAlphas(B, n, s) ==
    [b \in B |-> [k \in Tags(n) |-> IF k = s THEN 0 ELSE Sentinel]]

NextTagVarTransposed(al, tr, b, to) ==
    [from \in DOMAIN al[b] |-> al[b][from] + tr[from][to]]

\* line 186: next_tag_var[b][to][from] = alphas[b][from] + trans[to][from]
NextTagVar(al, tr, b, to) == [from \in DOMAIN al[b] |-> al[b][from] + tr[to][from]]

\* line 187, first result: the best score into each tag
ViterbiMax(al, tr) ==
    [b \in DOMAIN al |-> [to \in DOMAIN al[b] |-> MaxOf(NextTagVar(al, tr, b, to))]]

\* line 187, second result: the previous tag that achieves it
BestTagIds(al, tr) ==
    [b \in DOMAIN al |-> [to \in DOMAIN al[b] |-> ArgMax(NextTagVar(al, tr, b, to))]]

\* line 189
VitNewAlphas(al, tr, unary_t) ==
    [b \in DOMAIN al |-> [k \in DOMAIN al[b] |-> ViterbiMax(al, tr)[b][k] + unary_t[b][k]]]

VitStepMaskInclusive(step, lens, b) == step <= lens[b]

\* line 192: mask = (i < lengths)
VitStepMask(step, lens, b) == step < lens[b]

\* lines 191-195
VitBlend(al, new, step, lens) ==
    IF step >= MinLength(lens)
    THEN [b \in DOMAIN al |-> [k \in DOMAIN al[b] |->
             MaskedFill(al[b][k], VitStepMask(step, lens, b), 0)
               + MaskedFill(new[b][k], VitStepMask(step, lens, b) = FALSE, 0)]]
    ELSE new

\* lines 198-199
TerminalVar(al, tr, e) ==
    [b \in DOMAIN al |-> [k \in DOMAIN al[b] |-> al[b][k] + tr[e][k]]]

PathScore(al, tr, e) == [b \in DOMAIN al |-> MaxOf(TerminalVar(al, tr, e)[b])]

LastTag(al, tr, e) == [b \in DOMAIN al |-> ArgMax(TerminalVar(al, tr, e)[b])]

\* line 203
RevLen(T, lens) == [b \in DOMAIN lens |-> T - lens[b] - 1]

BackMaskInclusive(step, rev_len, b) == step >= rev_len[b]

\* line 208: mask = (i > rev_len)
BackMask(step, rev_len, b) == step > rev_len[b]

\* lines 206-209, for the step-th back-pointer from the end
BackStepTag(best, bps, step, rev_len) ==
    LET backpointer_t == bps[Len(bps) - step]
        new_best == [b \in DOMAIN best |-> backpointer_t[b][best[b]]]
    IN  [b \in DOMAIN best |->
            MaskedFill(best[b], BackMask(step, rev_len, b), 0)
              + MaskedFill(new_best[b], BackMask(step, rev_len, b) = FALSE, 0)]

Reverse(sq) == [q \in 1 .. Len(sq) |-> sq[Len(sq) + 1 - q]]

\* Python's path[:length] for length >= 0
Truncate(path, length) == SubSeq(path, 1, Min(length, Len(path)))

\* lines 211-218: drop the last entry, reverse, one row per element, truncate
FinishPaths(bp, lens) ==
    LET popped == SubSeq(bp, 1, Len(bp) - 1)
        rev == Reverse(popped)
    IN  [b \in DOMAIN lens |->
            Truncate([q \in 1 .. Len(rev) |-> rev[q][b]], lens[b])]

\* emission rows: all zero, or one tag raised to an ordinary or a large score
EmRows(n) ==
    {[k \in Tags(n) |-> 0]} \cup
    {[k \in Tags(n) |-> IF k = hot THEN v ELSE 0] :
        hot \in Tags(n), v \in (1 .. MaxVal) \cup {EmBig}}

\* CRF.decode up to the first iteration of the loop (lines 157-183)
Decode(B, T, unary_in, lens) ==
    /\ built
    /\ pc = "idle"
    /\ pc' = "vit_loop"
    /\ seq_len' = T
    /\ unary' = IF batch_first THEN Transpose01(unary_in, B, Steps(T)) ELSE unary_in
    /\ lengths' = lens
    /\ trans' = Transitions(transitions_p, mask)
    /\ i' = 0
    /\ alphas' = InitAlphas(B, n_tags, start_idx)
    /\ alpha_hist' = <<>>
    /\ backpointers' = <<>>
    /\ UNCHANGED <<crf_vars, last_transitions, tags, best_tag_id, best_path,
                   path_score, paths, fwd_score, gold_score, loss>>

\* one iteration of the loop of lines 185-195
VitStep ==
    /\ pc = "vit_loop"
    /\ i < seq_len
    /\ backpointers' = Append(backpointers, BestTagIds(alphas, trans))
    /\ alphas' = VitBlend(alphas, VitNewAlphas(alphas, trans, unary[i]), i, lengths)
    /\ alpha_hist' = Append(alpha_hist, alphas')
    /\ i' = i + 1
    /\ UNCHANGED <<crf_vars, last_transitions, pc, seq_len, unary, tags, lengths,
                   trans, best_tag_id, best_path, path_score, paths, fwd_score,
                   gold_score, loss>>

\* lines 197-203
VitTerminal ==
    /\ pc = "vit_loop"
    /\ i = seq_len
    /\ path_score' = PathScore(alphas, trans, end_idx)
    /\ best_tag_id' = LastTag(alphas, trans, end_idx)
    /\ best_path' = <<best_tag_id'>>
    /\ i' = 0
    /\ pc' = "vit_back"
    /\ UNCHANGED <<crf_vars, last_transitions, seq_len, unary, tags, lengths, trans,
                   alphas, alpha_hist, backpointers, paths, fwd_score, gold_score,
                   loss>>

\* one iteration of the loop of lines 204-210
BackStep ==
    /\ pc = "vit_back"
    /\ i < Len(backpointers)
    /\ best_tag_id' = BackStepTag(best_tag_id, backpointers, i, RevLen(seq_len, lengths))
    /\ best_path' = Append(best_path, best_tag_id')
    /\ i' = i + 1
    /\ UNCHANGED <<crf_vars, last_transitions, pc, seq_len, unary, tags, lengths,
                   trans, alphas, alpha_hist, backpointers, path_score, paths,
                   fwd_score, gold_score, loss>>

\* lines 211-219
VitReturn ==
    /\ pc = "vit_back"
    /\ i = Len(backpointers)
    /\ paths' = FinishPaths(best_path, lengths)
    /\ pc' = "decoded"
    /\ UNCHANGED <<crf_vars, last_transitions, seq_len, unary, tags, lengths, trans,
                   i, alphas, alpha_hist, backpointers, best_tag_id, best_path,
                   path_score, fwd_score, gold_score, loss>>

(***************************************************************************)
(* Scores of the log-sum-exp recursion.  [s |-> c, w |-> m] is the score   *)
(* c * Sentinel + log2(m): c sentinels and the weight m = 2^(rest).        *)
(***************************************************************************)
LZero == [s |-> 0, w |-> 1]

\* the integer score x (ordinary scores are >= 0) in the exponent domain
ToLV(x) ==
    LET c == IF x >= 0 THEN 0 ELSE ((-x) + (-Sentinel) - 1) \div (-Sentinel)
    IN  [s |-> c, w |-> Pow2(x - c * Sentinel)]

\* x + y
LAdd(x, y) == [s |-> x.s + y.s, w |-> x.w * y.w]

\* x >= y
LGeq(x, y) == x.s < y.s \/ (x.s = y.s /\ x.w >= y.w)

\* vec_log_sum_exp over a vector: max + log(sum(exp(v - max))); an entry a
\* sentinel below the maximum contributes exp(-1e4) = 0
LogSumExp(v) ==
    LET m == SetMin({v[k].s : k \in DOMAIN v})
    IN  [s |-> m,
         w |-> SumOver([k \in DOMAIN v |-> IF v[k].s = m THEN v[k].w ELSE 0], DOMAIN v)]

\* x - y as the pair of a sentinel count and a weight ratio
LSub(x, y) == [s |-> x.s - y.s, num |-> x.w, den |-> y.w]

\* a difference that is >= 0
NonNegative(d) == d.s < 0 \/ (d.s = 0 /\ d.num >= d.den)

(***************************************************************************)
(* Forward scorer: CRF.forward.                                            *)
(***************************************************************************)
\* lines 119-120
InitAlphasLV(B, n, s) ==
    [b \in B |-> [k \in Tags(n) |-> IF k = s THEN ToLV(0) ELSE ToLV(Sentinel)]]

\* line 133: scores[b][to][from] = alphas[b][from] + trans[to][from] + unary_t[b][to]
FwdScores(al, tr, unary_t, b, to) ==
    [from \in DOMAIN al[b] |->
        LAdd(LAdd(al[b][from], ToLV(tr[to][from])), ToLV(unary_t[b][to]))]

\* line 134
FwdNewAlphas(al, tr, unary_t) ==
    [b \in DOMAIN al |-> [to \in DOMAIN al[b] |-> LogSumExp(FwdScores(al, tr, unary_t, b, to))]]

FwdStepMaskInclusive(step, lens, b) == step <= lens[b]

\* line 139: mask = (i < lengths)
FwdStepMask(step, lens, b) == step < lens[b]

FwdBlendSwapped(al, new, step, lens) ==
    IF step >= MinLength(lens)
    THEN [b \in DOMAIN al |-> [k \in DOMAIN al[b] |->
             LAdd(MaskedFill(al[b][k], FwdStepMask(step, lens, b) = FALSE, LZero),
                  MaskedFill(new[b][k], FwdStepMask(step, lens, b), LZero))]]
    ELSE new

\* lines 138-142
FwdBlend(al, new, step, lens) ==
    IF step >= MinLength(lens)
    THEN [b \in DOMAIN al |-> [k \in DOMAIN al[b] |->
             LAdd(MaskedFill(al[b][k], FwdStepMask(step, lens, b), LZero),
                  MaskedFill(new[b][k], FwdStepMask(step, lens, b) = FALSE, LZero))]]
    ELSE new

\* lines 144-146
FwdTerminalScore(al, tr, e) ==
    [b \in DOMAIN al |->
        LogSumExp([k \in DOMAIN al[b] |-> LAdd(al[b][k], ToLV(tr[e][k]))])]

(***************************************************************************)
(* Gold-path scorer: CRF.score_sentence.  tg[t][b] is the gold tag.        *)
(***************************************************************************)
\* lines 87-88: the start tag prepended, rows 0 .. T
TagsWithStart(tg, T, s) ==
    [t \in 0 .. T |-> [b \in DOMAIN tg[0] |-> IF t = 0 THEN s ELSE tg[t - 1][b]]]

TransScoreTransposed(tg, T, tr, s) ==
    LET ts == TagsWithStart(tg, T, s)
    IN  [t \in Steps(T) |-> [b \in DOMAIN tg[0] |-> tr[ts[t][b]][ts[t + 1][b]]]]

\* lines 91-94: trans[next tag, previous tag]
TransScore(tg, T, tr, s) ==
    LET ts == TagsWithStart(tg, T, s)
    IN  [t \in Steps(T) |-> [b \in DOMAIN tg[0] |-> tr[ts[t + 1][b]][ts[t][b]]]]

\* line 96
UnaryScore(u, tg, T) ==
    [t \in Steps(T) |-> [b \in DOMAIN tg[0] |-> u[t][b][tg[t][b]]]]

\* sequence_mask(lengths), transposed: position t of element b is real
SequenceMask(lens, T) == [t \in Steps(T) |-> [b \in DOMAIN lens |-> t < lens[b]]]

UnmaskedScores(sc, lens, T) == sc

\* line 100: scores.masked_fill(mask == 0, 0)
MaskedScores(sc, lens, T) ==
    [t \in Steps(T) |-> [b \in DOMAIN lens |->
        MaskedFill(sc[t][b], SequenceMask(lens, T)[t][b] = FALSE, 0)]]

\* line 104: trans[end_idx, tags.gather(0, lengths)]
EosScores(tg, T, tr, lens, s, e) ==
    [b \in DOMAIN lens |-> tr[e][TagsWithStart(tg, T, s)[lens[b]][b]]]

\* lines 86-106
ScoreSentenceFn(u, tg, T, tr, lens, s, e) ==
    LET sc == [t \in Steps(T) |-> [b \in DOMAIN lens |->
                  UnaryScore(u, tg, T)[t][b] + TransScore(tg, T, tr, s)[t][b]]]
        masked == MaskedScores(sc, lens, T)
    IN  [b \in DOMAIN lens |->
            SumOver([t \in Steps(T) |-> masked[t][b]], Steps(T))
              + EosScores(tg, T, tr, lens, s, e)[b]]

\* CRF.neg_log_loss up to the first iteration of forward (lines 67-72, 117-123)
NegLogLoss(B, T, unary_in, tags_in, lens) ==
    /\ built
    /\ pc = "idle"
    /\ pc' = "fwd_loop"
    /\ seq_len' = T
    /\ unary' = IF batch_first THEN Transpose01(unary_in, B, Steps(T)) ELSE unary_in
    /\ tags' = IF batch_first THEN Transpose01(tags_in, B, Steps(T)) ELSE tags_in
    /\ lengths' = lens
    /\ trans' = Transitions(transitions_p, mask)
    /\ i' = 0
    /\ alphas' = InitAlphasLV(B, n_tags, start_idx)
    /\ alpha_hist' = <<>>
    /\ UNCHANGED <<crf_vars, last_transitions, backpointers, best_tag_id, best_path,
                   path_score, paths, fwd_score, gold_score, loss>>

\* one iteration of the loop of lines 125-142
FwdStep ==
    /\ pc = "fwd_loop"
    /\ i < seq_len
    /\ alphas' = FwdBlend(alphas, FwdNewAlphas(alphas, trans, unary[i]), i, lengths)
    /\ alpha_hist' = Append(alpha_hist, alphas')
    /\ i' = i + 1
    /\ UNCHANGED <<crf_vars, last_transitions, pc, seq_len, unary, tags, lengths,
                   trans, backpointers, best_tag_id, best_path, path_score, paths,
                   fwd_score, gold_score, loss>>

\* lines 144-146: forward returns
FwdTerminal ==
    /\ pc = "fwd_loop"
    /\ i = seq_len
    /\ fwd_score' = FwdTerminalScore(alphas, trans, end_idx)
    /\ pc' = "score"
    /\ UNCHANGED <<crf_vars, last_transitions, seq_len, unary, tags, lengths, trans,
                   i, alphas, alpha_hist, backpointers, best_tag_id, best_path,
                   path_score, paths, gold_score, loss>>

\* lines 73-74: score_sentence and the difference
ScoreSentence ==
    /\ pc = "score"
    /\ gold_score' = ScoreSentenceFn(unary, tags, seq_len,
                                     Transitions(transitions_p, mask),
                                     lengths, start_idx, end_idx)
    /\ loss' = [b \in DOMAIN lengths |-> LSub(fwd_score[b], ToLV(gold_score'[b]))]
    /\ pc' = "scored"
    /\ UNCHANGED <<crf_vars, last_transitions, seq_len, unary, tags, lengths, trans,
                   i, alphas, alpha_hist, backpointers, best_tag_id, best_path,
                   path_score, paths, fwd_score>>

(***************************************************************************)
(* Decoding one element with every mask and every length, 0 and T + 1      *)
(* included.                                                               *)
(***************************************************************************)
One == {0}

DecodeOne ==
    /\ pc = "idle"
    /\ \E T \in 1 .. MaxT :
       \E u \in [One -> [Steps(T) -> EmRows(n_tags)]] :
       \E lens \in [One -> 0 .. (T + 1)] :
           Decode(One, T, u, lens)

InitDecode ==
    /\ built = TRUE
    /\ n_tags = NTags /\ start_idx = 0 /\ end_idx = NTags - 1 /\ batch_first = TRUE
    /\ mask \in MaskChoices(n_tags, start_idx, end_idx)
    /\ transitions_p \in ParamChoices(n_tags)
    /\ last_transitions = None
    /\ IdleCall

NextDecode == DecodeOne \/ VitStep \/ VitTerminal \/ BackStep \/ VitReturn

SpecDecode == InitDecode /\ [][NextDecode]_vars

(***************************************************************************)
(* Reference scores of a tag sequence sq (1-based) for element b.          *)
(***************************************************************************)
Valid(b) == 1 <= lengths[b] /\ lengths[b] <= seq_len

AllSeqs(L) == [1 .. L -> Tags(n_tags)]

\* sum over t < Len(sq) of emission[t][sq[t]] + transition[sq[t], sq[t-1]],
\* with sq[-1] = prev, plus transition[END, last tag]
ScoreFrom(prev, sq, b) ==
    SumOver([t \in Steps(Len(sq)) |->
                unary[t][b][sq[t + 1]]
                  + trans[sq[t + 1]][IF t = 0 THEN prev ELSE sq[t]]],
            Steps(Len(sq)))
      + trans[end_idx][sq[Len(sq)]]

SeqScore(sq, b) == ScoreFrom(start_idx, sq, b)

\* the same score when the tag before the first may be any tag, at the cost
\* the initial alphas give it
SeqScoreAnyStart(sq, b) ==
    SetMax({(IF prev = start_idx THEN 0 ELSE Sentinel) + ScoreFrom(prev, sq, b) :
              prev \in Tags(n_tags)})

\* the start tag is a best predecessor of tag k at step 0
StartIsBest(k) ==
    \A prev \in Tags(n_tags) \ {start_idx} :
        trans[k][prev] + Sentinel <= trans[k][start_idx]

\* C1 as stated: the returned sequence is highest-scoring with tag[-1] = START
\* and the returned path score is its score.
C1_AsStated ==
    pc = "decoded" =>
        \A b \in DOMAIN lengths : Valid(b) =>
            /\ path_score[b] = SeqScore(paths[b], b)
            /\ \A sq \in AllSeqs(lengths[b]) : SeqScore(sq, b) <= SeqScore(paths[b], b)

\* C1 (amended): for every element with 1 <= length <= T the returned
\* sequence is highest-scoring, and the returned path score is its score, for
\* the score in which tag[-1] is the best of START (cost 0) and any other tag
\* (cost -1e4); whenever START is a best predecessor of the returned first tag
\* this is the START-only score and the sequence is highest-scoring for it.
C1_ViterbiOptimal ==
    pc = "decoded" =>
        \A b \in DOMAIN lengths : Valid(b) =>
            /\ Len(paths[b]) = lengths[b]
            /\ path_score[b] = SeqScoreAnyStart(paths[b], b)
            /\ \A sq \in AllSeqs(lengths[b]) : SeqScoreAnyStart(sq, b) <= path_score[b]
            /\ StartIsBest(paths[b][1]) =>
                   /\ path_score[b] = SeqScore(paths[b], b)
                   /\ \A sq \in AllSeqs(lengths[b]) :
                          SeqScore(sq, b) <= SeqScore(paths[b], b)

\* a decode of a full-width element whose best path visits two different
\* tags and scores above zero, with the start tag a best predecessor
C1_Witness ==
    /\ pc = "decoded"
    /\ seq_len = MaxT /\ lengths[0] = MaxT
    /\ paths[0][1] # paths[0][MaxT]
    /\ StartIsBest(paths[0][1])
    /\ path_score[0] > 0

\* C2: for every element with 1 <= length <= T the returned path has exactly
\* length tags, its last tag is the arg-max of the terminal scores and each
\* earlier tag is the back-pointer recorded at the next position for the tag
\* that follows it (positions 0..length-1 in forward order).
C2_PathLength ==
    pc = "decoded" =>
        \A b \in DOMAIN lengths : Valid(b) =>
            /\ Len(paths[b]) = lengths[b]
            /\ paths[b][lengths[b]] = LastTag(alphas, trans, end_idx)[b]
            /\ \A q \in 1 .. (lengths[b] - 1) :
                   paths[b][q] = backpointers[q + 1][b][paths[b][q + 1]]

\* a decode of a padded element (length < T) whose padded back-pointer would
\* have led elsewhere
C2_Witness ==
    /\ pc = "decoded"
    /\ Valid(0) /\ lengths[0] < seq_len
    /\ Len(paths[0]) = lengths[0]
    /\ backpointers[lengths[0] + 1][0][paths[0][lengths[0]]] # paths[0][lengths[0]]

(***************************************************************************)
(* Transition constraints (chain masks), degenerate and oversized lengths. *)
(***************************************************************************)
MaskIsChain(c) == mask = Some(ChainMask(n_tags, start_idx, end_idx, c))

\* how far the emissions of the first L steps can move a path score
EmSpread(b, L) ==
    SumOver([t \in Steps(L) |->
                SetMax({unary[t][b][k] : k \in Tags(n_tags)})
                  - SetMin({unary[t][b][k] : k \in Tags(n_tags)})],
            Steps(L))

\* how far one raw transition score can move a path score
TransSpread ==
    LET raw == {transitions_p[to][from] : to \in Tags(n_tags), from \in Tags(n_tags)}
    IN  SetMax(raw \cup {0}) - SetMin(raw \cup {0})

\* C4 as stated: under a chain mask decode returns the chain for every
\* choice of emission scores.
C4_AsStated ==
    pc = "decoded" =>
        \A b \in DOMAIN lengths : \A c \in Chains(n_tags, start_idx, end_idx) :
            (MaskIsChain(c) /\ Valid(b) /\ lengths[b] = Len(c)) => paths[b] = c

\* C4 (amended): if the mask leaves only the chain START -> s1 -> ... -> sL
\* -> END (and the diagonal) valid, decode on an element of length L returns
\* exactly (s1..sL) for every choice of emission and raw transition scores
\* whose spread over a path (per-step emission range summed over the L
\* steps, plus L + 1 times the raw transition range) is below 1e4.
C4_ChainRecovered ==
    pc = "decoded" =>
        \A b \in DOMAIN lengths : \A c \in Chains(n_tags, start_idx, end_idx) :
            (/\ MaskIsChain(c) /\ Valid(b) /\ lengths[b] = Len(c)
             /\ EmSpread(b, Len(c)) + (Len(c) + 1) * TransSpread < -Sentinel)
            => paths[b] = c

\* a chain of two tags recovered although an emission favours another tag
C4_Witness ==
    /\ pc = "decoded"
    /\ \E c \in Chains(n_tags, start_idx, end_idx) :
          /\ MaskIsChain(c) /\ Len(c) = 2 /\ lengths[0] = 2 /\ seq_len = 2
          /\ unary[0][0][c[2]] > 0
          /\ unary[0][0][c[2]] < -Sentinel
          /\ paths[0] = c

\* C8: an element of length 0 is rejected, or decodes to the empty path with
\* path score exactly 0.
C8_ZeroLength ==
    pc = "decoded" =>
        \A b \in DOMAIN lengths :
            lengths[b] = 0 => (paths[b] = <<>> /\ path_score[b] = 0)

\* C9: a call whose lengths exceed the padded width T runs no step of a DP
\* loop and returns no path or score.
C9_RejectedBeforeLoop ==
    pc # "idle" =>
        \A b \in DOMAIN lengths :
            lengths[b] > seq_len => (alpha_hist = <<>> /\ pc # "decoded")

(***************************************************************************)
(* Batches of two elements of valid lengths: decoding and the loss.        *)
(***************************************************************************)
BatchTags == 3      \* n_tags of the CRF the batches are run on

\* the emissions of one element: all zero, or one (step, tag) raised
ElemEm(T, n) ==
    {[t \in Steps(T) |-> [k \in Tags(n) |-> 0]]} \cup
    {[t \in Steps(T) |-> [k \in Tags(n) |-> IF t = ht /\ k = hk THEN v ELSE 0]] :
        ht \in Steps(T), hk \in Tags(n), v \in 1 .. MaxVal}

\* gold tags: any sequence for element 0, its mirror image for element 1
GoldTags(T, n) ==
    {[b \in Batch |-> [t \in Steps(T) |-> IF b = 0 THEN g[t] ELSE n - 1 - g[t]]] :
        g \in [Steps(T) -> Tags(n)]}

DecodeBatch ==
    /\ pc = "idle"
    /\ \E T \in 1 .. MaxT :
       \E u \in [Batch -> ElemEm(T, n_tags)] :
       \E lens \in [Batch -> 1 .. T] :
           Decode(Batch, T, u, lens)

NegLogLossBatch ==
    /\ pc = "idle"
    /\ \E T \in 1 .. MaxT :
       \E u \in [Batch -> ElemEm(T, n_tags)] :
       \E tg \in GoldTags(T, n_tags) :
       \E lens \in [Batch -> 1 .. T] :
           NegLogLoss(Batch, T, u, tg, lens)

Init ==
    /\ built = TRUE
    /\ n_tags = BatchTags /\ start_idx = 0 /\ end_idx = BatchTags - 1
    /\ batch_first = TRUE
    /\ mask \in MaskChoices(n_tags, start_idx, end_idx)
    /\ transitions_p \in ParamChoices(n_tags)
    /\ last_transitions = None
    /\ IdleCall

Next ==
    \/ DecodeBatch \/ VitStep \/ VitTerminal \/ BackStep \/ VitReturn
    \/ NegLogLossBatch \/ FwdStep \/ FwdTerminal \/ ScoreSentence

Spec == Init /\ [][Next]_vars

(***************************************************************************)
(* The three computations as functions of their inputs, composed of the    *)
(* same steps, to run an element alone.                                    *)
(***************************************************************************)
RECURSIVE FwdLoop(_, _, _, _, _, _)
FwdLoop(al, step, T, u, tr, lens) ==
    IF step = T THEN al
    ELSE FwdLoop(FwdBlend(al, FwdNewAlphas(al, tr, u[step]), step, lens),
                 step + 1, T, u, tr, lens)

\* CRF.forward
ForwardFn(u, T, tr, lens, n, s, e) ==
    FwdTerminalScore(FwdLoop(InitAlphasLV(DOMAIN lens, n, s), 0, T, u, tr, lens), tr, e)

RECURSIVE VitLoop(_, _, _, _, _, _, _)
\* the alphas and back-pointers after the loop of lines 185-195
VitLoop(al, bps, step, T, u, tr, lens) ==
    IF step = T THEN [alphas |-> al, backpointers |-> bps]
    ELSE VitLoop(VitBlend(al, VitNewAlphas(al, tr, u[step]), step, lens),
                 Append(bps, BestTagIds(al, tr)), step + 1, T, u, tr, lens)

RECURSIVE BackLoop(_, _, _, _, _)
\* best_path after the loop of lines 204-210
BackLoop(best, bp, step, bps, rev_len) ==
    IF step = Len(bps) THEN bp
    ELSE LET nxt == BackStepTag(best, bps, step, rev_len)
         IN  BackLoop(nxt, Append(bp, nxt), step + 1, bps, rev_len)

\* viterbi
ViterbiFn(u, T, tr, lens, n, s, e) ==
    LET fw == VitLoop(InitAlphas(DOMAIN lens, n, s), <<>>, 0, T, u, tr, lens)
        last == LastTag(fw.alphas, tr, e)
        bp == BackLoop(last, <<last>>, 0, fw.backpointers, RevLen(T, lens))
    IN  [paths |-> FinishPaths(bp, lens), path_score |-> PathScore(fw.alphas, tr, e)]

\* element b of the current call as a batch of its own, cut to its length
AloneUnary(b) == [t \in Steps(lengths[b]) |-> [x \in One |-> unary[t][b]]]
AloneTags(b) == [t \in Steps(lengths[b]) |-> [x \in One |-> tags[t][b]]]
AloneLengths(b) == [x \in One |-> lengths[b]]

\* C3: for an element of true length L in a batch padded to T, the decoded
\* path and path score, the forward score and the gold-path score equal
\* those of the same element run alone with T = L (so they depend neither on
\* emissions or gold tags at positions >= L nor on the other elements).
C3_PaddingInvariant ==
    /\ pc = "decoded" =>
          \A b \in DOMAIN lengths : Valid(b) =>
              LET alone == ViterbiFn(AloneUnary(b), lengths[b], trans,
                                     AloneLengths(b), n_tags, start_idx, end_idx)
              IN  /\ paths[b] = alone.paths[0]
                  /\ path_score[b] = alone.path_score[0]
    /\ pc = "scored" =>
          \A b \in DOMAIN lengths : Valid(b) =>
              /\ fwd_score[b] =
                    ForwardFn(AloneUnary(b), lengths[b], trans, AloneLengths(b),
                              n_tags, start_idx, end_idx)[0]
              /\ gold_score[b] =
                    ScoreSentenceFn(AloneUnary(b), AloneTags(b), lengths[b], trans,
                                    AloneLengths(b), start_idx, end_idx)[0]

\* a scored batch of lengths 1 and T > 1 whose short element has a non-zero
\* emission and a different gold tag in its padding
C3_Witness ==
    /\ pc = "scored"
    /\ seq_len = MaxT /\ lengths[0] = 1 /\ lengths[1] = MaxT
    /\ \E k \in Tags(n_tags) : unary[1][0][k] > 0
    /\ tags[1][0] # tags[0][0]
    /\ mask # None

\* C5: for valid inputs the loss forward - gold is >= 0 for every element.
C5_LossNonNegative ==
    pc = "scored" =>
        \A b \in DOMAIN lengths : Valid(b) =>
            /\ NonNegative(loss[b])
            /\ LGeq(fwd_score[b], ToLV(gold_score[b]))

\* a scored batch with a gold path that crosses a masked transition and one
\* that collects a raw transition score
C5_Witness ==
    /\ pc = "scored"
    /\ gold_score[0] < 0
    /\ gold_score[1] > 0
    /\ lengths[0] < seq_len

RECURSIVE VitUnmasked(_)
\* the alphas after q steps of the max-recursion with no masking at all
VitUnmasked(q) ==
    IF q = 0 THEN InitAlphas(DOMAIN lengths, n_tags, start_idx)
    ELSE VitNewAlphas(VitUnmasked(q - 1), trans, unary[q - 1])

RECURSIVE FwdUnmasked(_)
\* the alphas after q steps of the log-sum-exp recursion with no masking
FwdUnmasked(q) ==
    IF q = 0 THEN InitAlphasLV(DOMAIN lengths, n_tags, start_idx)
    ELSE FwdNewAlphas(FwdUnmasked(q - 1), trans, unary[q - 1])

\* C10: in both loops the alphas of element b after step t are the newly
\* computed ones while t < length[b] and the previous ones afterwards: after
\* q steps they are the unmasked recursion's alphas after min(q, length[b])
\* steps, whether the step took the shortcut or the blend (for length = T
\* the whole trajectory is the unmasked one).
C10_AlphaSelection ==
    /\ pc \in {"vit_loop", "vit_back", "decoded"} =>
          \A q \in 1 .. Len(alpha_hist) : \A b \in DOMAIN lengths : Valid(b) =>
              alpha_hist[q][b] = VitUnmasked(Min(q, lengths[b]))[b]
    /\ pc \in {"fwd_loop", "score", "scored"} =>
          \A q \in 1 .. Len(alpha_hist) : \A b \in DOMAIN lengths : Valid(b) =>
              alpha_hist[q][b] = FwdUnmasked(Min(q, lengths[b]))[b]

\* a forward pass of lengths 1 and T: a shortcut step, then a blended step
\* that freezes element 0 where the new alphas differ and lets element 1 move
C10_Witness ==
    /\ pc = "fwd_loop" /\ i = MaxT /\ MaxT > 1
    /\ lengths[0] = 1 /\ lengths[1] = MaxT
    /\ alpha_hist[MaxT][0] = alpha_hist[1][0]
    /\ FwdNewAlphas(alpha_hist[1], trans, unary[1])[0] # alpha_hist[1][0]
    /\ alpha_hist[MaxT][1] # alpha_hist[1][1]

\* the gold tags of element b at its real positions, 1-based
GoldSeq(b) == [q \in 1 .. lengths[b] |-> tags[q - 1][b]]

\* C11: for every element with 1 <= length <= T score_sentence returns the
\* sum over t < length of emission[t][tag[t]] + transition[tag[t], tag[t-1]]
\* with tag[-1] = START, plus transition[END, tag[length-1]], positions
\* t >= length adding nothing; the matrix is read [to, from] as the forward
\* and Viterbi recursions and their END steps read it: the gold score never
\* exceeds the Viterbi score of the same inputs, equals it when the gold
\* tags are the decoded path entered from START, and never exceeds the
\* forward score.
C11_GoldScore ==
    pc = "scored" =>
        LET vit == ViterbiFn(unary, seq_len, trans, lengths, n_tags,
                             start_idx, end_idx)
        IN  \A b \in DOMAIN lengths : Valid(b) =>
                /\ gold_score[b] = SeqScore(GoldSeq(b), b)
                /\ gold_score[b] <= vit.path_score[b]
                /\ (GoldSeq(b) = vit.paths[b] /\ StartIsBest(GoldSeq(b)[1])) =>
                       gold_score[b] = vit.path_score[b]
                /\ LGeq(fwd_score[b], ToLV(gold_score[b]))

\* a scored batch of lengths 1 and T > 1: the short element has a non-zero
\* emission on its gold tag in the padding, the long element's gold path
\* is the decoded path and collects a transition score that the opposite
\* orientation would not
C11_Witness ==
    /\ pc = "scored"
    /\ seq_len = MaxT /\ MaxT > 1 /\ lengths[0] = 1 /\ lengths[1] = MaxT
    /\ unary[1][0][tags[1][0]] > 0
    /\ trans[tags[1][1]][tags[0][1]] > trans[tags[0][1]][tags[1][1]]
    /\ gold_score[1] > 0
    /\ GoldSeq(1) = ViterbiFn(unary, seq_len, trans, lengths, n_tags,
                              start_idx, end_idx).paths[1]

====
